---- MODULE Spec2Model ----
(***************************************************************************)
(* A model of metalgpy/_expression.py: the symbolic-expression algebra.    *)
(*                                                                         *)
(* The state is the object heap of one Python process (every Expression    *)
(* object the caller has built, addressed by its position in `heap`), the  *)
(* class attribute VarExpression.var_id, and what the caller observed from *)
(* the last operation (`res`).  Sampling adds the shared memo dict and a   *)
(* per-object count of draws from the random source; calling adds the log  *)
(* of calls made to wrapped external callables.                            *)
(***************************************************************************)
EXTENDS Integers, Sequences, FiniteSets, TLC

VARIABLES heap, var_id, res, memo, draws, calls

vars == <<heap, var_id, res, memo, draws, calls>>

(***************************************************************************)
(* Bounds of the model.                                                    *)
(***************************************************************************)
\* objects the caller builds in the graph specification
MaxObjects == 3
\* variables built in the construction specification
MaxCtor == 3
\* objects built before operators are applied in the operator specification
MaxOps == 2

(***************************************************************************)
(* Python values.  An object reference is the address of a heap cell; the  *)
(* other values are immutable and carry no identity.                       *)
(***************************************************************************)
None == [t |-> "none"]
Lit(n) == [t |-> "int", n |-> n]
Bool(b) == [t |-> "bool", b |-> b]
Str(s) == [t |-> "str", s |-> s]
Ref(a) == [t |-> "ref", a |-> a]
Lst(xs) == [t |-> "list", xs |-> xs]
Raise(e) == [t |-> "raise", exc |-> e]

IsRef(v) == v.t = "ref"
IsRaise(v) == v.t = "raise"

\* allocation of a new object: its address is the next heap position
New(h, o) == Append(h, o)

\* a dict: a function from its keys to its values
EmptyDict == [k \in {} |-> None]
DictSet(d, k, v) == [x \in (DOMAIN d) \cup {k} |-> IF x = k THEN v ELSE d[x]]
DictUpdate(d, e) == [x \in (DOMAIN d) \cup (DOMAIN e) |-> IF x \in DOMAIN e THEN e[x] ELSE d[x]]

(***************************************************************************)
(* The operator symbol registry.                                           *)
(***************************************************************************)
BinSymbols == {"<", "<=", "==", "!=", ">", ">=", "+", "-", "*", "@", "/", "//", "%", "**", "and", "^", "or"}

BIN_OPS_SYNTAX_2_ATTR ==
    [s \in BinSymbols |->
        CASE s = "<" -> "__lt__" [] s = "<=" -> "__le__" [] s = "==" -> "__eq__"
          [] s = "!=" -> "__ne__" [] s = ">" -> "__gt__" [] s = ">=" -> "__ge__"
          [] s = "+" -> "__add__" [] s = "-" -> "__sub__" [] s = "*" -> "__mul__"
          [] s = "@" -> "__matmul__" [] s = "/" -> "__truediv__"
          [] s = "//" -> "__floordiv__" [] s = "%" -> "__mod__" [] s = "**" -> "__pow__"
          [] s = "and" -> "__and__" [] s = "^" -> "__xor__" [] s = "or" -> "__or__"]

BinAttrs == {BIN_OPS_SYNTAX_2_ATTR[s] : s \in BinSymbols}

BIN_OPS_ATTR_2_SYNTAX ==
    [a \in BinAttrs |-> CHOOSE s \in BinSymbols : BIN_OPS_SYNTAX_2_ATTR[s] = a]

(***************************************************************************)
(* Classes.                                                                *)
(***************************************************************************)
VarClasses == {"List", "Int", "Float"}
NodeClasses == {"BinaryExpression", "ExpressionCallExpression", "FunctionCallExpression",
                "ExpressionAttributeAccess", "ObjectExpression"}

\* isinstance(v, Expression) / isinstance(v, VarExpression) for a value v
IsExpression(h, v) == IsRef(v)
IsVarExpression(h, v) == IsRef(v) /\ h[v.a].cls \in VarClasses

Vars(h) == {a \in 1..Len(h) : h[a].cls \in VarClasses}

(***************************************************************************)
(* VarExpression: construction and identity.                               *)
(***************************************************************************)
Digits == <<"0", "1", "2", "3", "4", "5", "6", "7", "8", "9">>

\* str(n) for n >= 0, as a sequence of characters
RECURSIVE str(_)
str(n) == IF n < 10 THEN <<Digits[n + 1]>> ELSE str(n \div 10) \o <<Digits[(n % 10) + 1]>>

\* bool(self._name): None and the empty string are falsy
NameTruthy(name) == name.t = "str" /\ Len(name.s) > 0

\* the property VarExpression.id
VarExpression_id(o) == IF NameTruthy(o._name) THEN o._name ELSE Str(str(o.var_id))

\* the fields VarExpression.__init__ sets on a new variable
VarExpression_init(name, counter) == [_name |-> name, var_id |-> counter, value |-> None]

Int_init(cls, low, high, name, counter) ==
    [cls |-> cls, _low |-> low, _high |-> high] @@ VarExpression_init(name, counter)

List_init(values, k, replace, invariant, name, counter) ==
    [cls |-> "List", _values |-> Lst(values), _k |-> k, _replace |-> replace,
     _invariant |-> invariant] @@ VarExpression_init(name, counter)

(***************************************************************************)
(* Node construction.                                                      *)
(***************************************************************************)
BinaryExpression(left, right, operator) ==
    [cls |-> "BinaryExpression", left |-> left, right |-> right, operator |-> operator]

\* args is a list; kwargs is a mapping, held here as the list of its values
\* in sorted key order
ExpressionCallExpression(expression, args, kwargs) ==
    [cls |-> "ExpressionCallExpression", expression |-> expression,
     args |-> Lst(args), kwargs |-> Lst(kwargs)]

FunctionCallExpression(function_parent, function, args, kwargs) ==
    [cls |-> "FunctionCallExpression", function_parent |-> function_parent,
     function |-> function, args |-> Lst(args), kwargs |-> Lst(kwargs)]

ExpressionAttributeAccess(expression, name) ==
    [cls |-> "ExpressionAttributeAccess", expression |-> expression, name |-> name]

ObjectExpression(obj) == [cls |-> "ObjectExpression", _obj |-> obj]

(***************************************************************************)
(* Traversal of a node's __dict__ (tree.map_structure): the fields that    *)
(* hold values, in sorted key order, lists and mappings flattened.         *)
(***************************************************************************)
DictFields ==
    [c \in NodeClasses \cup VarClasses |->
        CASE c = "BinaryExpression" -> <<"left", "right">>
          [] c = "ExpressionCallExpression" -> <<"args", "expression", "kwargs">>
          [] c = "FunctionCallExpression" -> <<"args", "function", "function_parent", "kwargs">>
          [] c = "ExpressionAttributeAccess" -> <<"expression">>
          [] c = "ObjectExpression" -> <<"_obj">>
          [] c = "List" -> <<"_k", "_values", "value">>
          [] c \in {"Int", "Float"} -> <<"_high", "_low", "value">>]

RECURSIVE Flatten(_)
Flatten(v) == IF v.t = "list"
              THEN IF v.xs = <<>> THEN <<>>
                   ELSE Flatten(Head(v.xs)) \o Flatten(Lst(Tail(v.xs)))
              ELSE <<v>>

FieldValues(o) == [i \in 1..Len(DictFields[o.cls]) |-> o[DictFields[o.cls][i]]]

Leaves(o) == Flatten(Lst(FieldValues(o)))

\* o with its value fields replaced by vs (in DictFields order)
WithFieldValues(o, vs) ==
    [f \in DOMAIN o |->
        IF \E i \in 1..Len(DictFields[o.cls]) : DictFields[o.cls][i] = f
        THEN vs[CHOOSE i \in 1..Len(DictFields[o.cls]) : DictFields[o.cls][i] = f]
        ELSE o[f]]

(***************************************************************************)
(* choices()                                                               *)
(***************************************************************************)
RECURSIVE choices(_, _), choice_aux(_, _, _)

\* choice_aux mapped over the leaves vs, updating the dict m
choice_aux(h, m, vs) ==
    IF vs = <<>> THEN m
    ELSE LET o == Head(vs)
             m1 == IF IsExpression(h, o)
                   THEN IF IsVarExpression(h, o)
                        THEN DictSet(m, VarExpression_id(h[o.a]), o)
                        ELSE DictUpdate(m, choices(h, o.a))
                   ELSE m
         IN choice_aux(h, m1, Tail(vs))

\* a mutant: ExpressionCallExpression.choices forgetting its kwargs
choicesNoKwargs(h, a) ==
    LET o == h[a] IN
    IF o.cls \in VarClasses THEN DictSet(EmptyDict, VarExpression_id(o), Ref(a))
    ELSE IF o.cls = "ExpressionCallExpression"
         THEN choice_aux(h, choices(h, o.expression.a), Flatten(o.args))
         ELSE choice_aux(h, EmptyDict, Leaves(o))

\* VarExpression.choices, ExpressionCallExpression.choices, Expression.choices
choices(h, a) ==
    LET o == h[a] IN
    IF o.cls \in VarClasses THEN DictSet(EmptyDict, VarExpression_id(o), Ref(a))
    ELSE IF o.cls = "ExpressionCallExpression"
         THEN choice_aux(h, choice_aux(h, choices(h, o.expression.a), Flatten(o.args)),
                         Flatten(o.kwargs))
         ELSE choice_aux(h, EmptyDict, Leaves(o))

(***************************************************************************)
(* clone(deep): copy.copy and copy.deepcopy over the heap.  Each returns   *)
(* the heap with the copies allocated and the value that stands for the    *)
(* copy; deepcopy also returns its memo (original address -> copy).        *)
(***************************************************************************)
RECURSIVE deepcopy(_, _, _), deepcopy_seq(_, _, _)

deepcopy_seq(h, vs, m) ==
    IF vs = <<>> THEN [h |-> h, vs |-> <<>>, memo |-> m]
    ELSE LET r1 == deepcopy(h, Head(vs), m)
             r2 == deepcopy_seq(r1.h, Tail(vs), r1.memo)
         IN [h |-> r2.h, vs |-> <<r1.v>> \o r2.vs, memo |-> r2.memo]

\* Expression.__deepcopy__(self, memo): the copy of self.__dict__ is made by
\* a call of copy.deepcopy that is given no memo, so it starts an empty one
Expression_deepcopy(h, a, m) ==
    LET n == Len(h) + 1
        r == deepcopy_seq(Append(h, h[a]), FieldValues(h[a]), EmptyDict)
    IN [h |-> [r.h EXCEPT ![n] = WithFieldValues(h[a], r.vs)],
        v |-> Ref(n),
        memo |-> DictSet(m, a, n)]

\* copy.deepcopy(v, memo)
deepcopy(h, v, m) ==
    IF v.t = "ref"
    THEN IF v.a \in DOMAIN m THEN [h |-> h, v |-> Ref(m[v.a]), memo |-> m]
         ELSE Expression_deepcopy(h, v.a, m)
    ELSE IF v.t = "list"
         THEN LET r == deepcopy_seq(h, v.xs, m)
              IN [h |-> r.h, v |-> Lst(r.vs), memo |-> r.memo]
         ELSE [h |-> h, v |-> v, memo |-> m]

RECURSIVE copy(_, _), copy_seq(_, _)

copy_seq(h, vs) ==
    IF vs = <<>> THEN [h |-> h, vs |-> <<>>]
    ELSE LET r1 == copy(h, Head(vs))
             r2 == copy_seq(r1.h, Tail(vs))
         IN [h |-> r2.h, vs |-> <<r1.v>> \o r2.vs]

\* Expression.__copy__ through copy_aux: every Expression leaf is copied in
\* turn, every other leaf is shared
Expression_copy(h, a) ==
    LET n == Len(h) + 1
        r == copy_seq(Append(h, h[a]), FieldValues(h[a]))
    IN [h |-> [r.h EXCEPT ![n] = WithFieldValues(h[a], r.vs)], v |-> Ref(n)]

\* a mutant: a copy that shares the variables instead of copying them
copyShareVariables(h, v) ==
    IF v.t = "ref"
    THEN IF h[v.a].cls \in VarClasses THEN [h |-> h, v |-> v] ELSE Expression_copy(h, v.a)
    ELSE IF v.t = "list"
         THEN LET r == copy_seq(h, v.xs) IN [h |-> r.h, v |-> Lst(r.vs)]
         ELSE [h |-> h, v |-> v]

\* copy.copy(v), and copy_aux mapped over a structure
copy(h, v) ==
    IF v.t = "ref" THEN Expression_copy(h, v.a)
    ELSE IF v.t = "list"
         THEN LET r == copy_seq(h, v.xs) IN [h |-> r.h, v |-> Lst(r.vs)]
         ELSE [h |-> h, v |-> v]

\* Expression.clone(deep)
clone(h, a, deep) ==
    IF deep THEN LET r == deepcopy(h, Ref(a), EmptyDict) IN [h |-> r.h, v |-> r.v]
    ELSE copy(h, Ref(a))

(***************************************************************************)
(* Applying a binary operator symbol to a node: Python looks the method up *)
(* on the node's class.                                                    *)
(***************************************************************************)
\* the binary operator methods class Expression defines
ExpressionBinaryMethods ==
    {"__add__", "__sub__", "__mul__", "__matmul__", "__truediv__", "__floordiv__",
     "__mod__", "__lt__", "__le__", "__eq__", "__ne__", "__gt__", "__ge__",
     "__and__", "__xor__", "__or__"}

\* VarExpression.__eq__: a truth value, no node (the variables compared here
\* hold plain values)
VarExpression_eq(h, a, other) ==
    /\ IsRef(other)
    /\ h[a].cls = h[other.a].cls
    /\ h[a].value = h[other.a].value

\* List.__eq__
List_eq(h, a, other) ==
    [h |-> h,
     ret |-> Bool(/\ VarExpression_eq(h, a, other)
                  /\ h[a]._values = h[other.a]._values
                  /\ h[a]._k = h[other.a]._k
                  /\ h[a]._replace = h[other.a]._replace)]

\* bound == other.<name>, other being an Int or a Float: the attribute does
\* not exist, so the read builds an ExpressionAttributeAccess; a literal bound
\* then defers to that node's __eq__ (a new BinaryExpression), a variable
\* bound answers False by VarExpression.__eq__
BoundEq(h, bound, other, name) ==
    LET h1 == New(h, ExpressionAttributeAccess(other, name))
        acc == Ref(Len(h) + 1)
    IN IF IsVarExpression(h, bound) THEN [h |-> h1, ret |-> Bool(FALSE)]
       ELSE [h |-> New(h1, BinaryExpression(acc, bound, "==")), ret |-> Ref(Len(h) + 2)]

\* Int.__eq__ and Float.__eq__
Int_eq(h, a, other) ==
    IF ~VarExpression_eq(h, a, other) THEN [h |-> h, ret |-> Bool(FALSE)]
    ELSE LET r1 == BoundEq(h, h[a]._high, other, "_upper")
         IN IF r1.ret = Bool(FALSE) THEN r1
            ELSE BoundEq(r1.h, h[a]._low, other, "_lower")

\* `node <sym> other`
ApplyOperator(h, a, sym, other) ==
    LET attr == BIN_OPS_SYNTAX_2_ATTR[sym] IN
    IF attr = "__eq__" /\ h[a].cls = "List" THEN List_eq(h, a, other)
    ELSE IF attr = "__eq__" /\ h[a].cls \in {"Int", "Float"} THEN Int_eq(h, a, other)
    ELSE IF attr \in ExpressionBinaryMethods
         THEN [h |-> New(h, BinaryExpression(Ref(a), other, BIN_OPS_ATTR_2_SYNTAX[attr])),
               ret |-> Ref(Len(h) + 1)]
         ELSE [h |-> h, ret |-> Raise("TypeError")]

(***************************************************************************)
(* External objects a caller wraps, and calling a node.                    *)
(***************************************************************************)
\* a class, a plain function, and a callable instance (truthy unless its
\* class makes it falsy)
ExtClass(name) == [t |-> "ext", kind |-> "class", name |-> name]
ExtFunction(name) == [t |-> "ext", kind |-> "function", name |-> name]
ExtInstance(name, truthy) == [t |-> "ext", kind |-> "instance", name |-> name, truthy |-> truthy]

\* cls.__init__: a function named __init__
InitOf(c) == [t |-> "ext", kind |-> "function", name |-> "__init__", of |-> c]
\* obj.__call__: the method __call__ bound to obj
BoundCall(obj) == [t |-> "ext", kind |-> "boundmethod", name |-> "__call__", self |-> obj]

\* ObjectExpression.__call__(*args, **kwargs)
ObjectExpression_call(obj, args, kwargs) ==
    IF obj.kind = "class"
    THEN FunctionCallExpression(obj, InitOf(obj), args, kwargs)
    ELSE IF obj.kind = "function"
         THEN FunctionCallExpression(None, obj, args, kwargs)
         ELSE FunctionCallExpression(obj, BoundCall(obj), args, kwargs)

\* node(*args, **kwargs): ObjectExpression.__call__ or Expression.__call__
CallNode(h, a, args, kwargs) ==
    IF h[a].cls = "ObjectExpression"
    THEN ObjectExpression_call(h[a]._obj, args, kwargs)
    ELSE ExpressionCallExpression(Ref(a), args, kwargs)

(***************************************************************************)
(* freeze(choice).  The result is the heap after the call, the exception   *)
(* that ended it ("" when it returned normally) and the objects whose      *)
(* freeze was called.                                                      *)
(***************************************************************************)
\* xs[i] on a Python list: negative indexes count from the end
PyIndexOk(xs, i) == -Len(xs) <= i /\ i < Len(xs)
PyIndex(xs, i) == IF i >= 0 THEN xs[i + 1] ELSE xs[Len(xs) + i + 1]

\* [i for i in range(n)]
RECURSIVE range(_)
range(n) == IF n <= 0 THEN <<>> ELSE range(n - 1) \o <<Lit(n - 1)>>

\* List._getitem(item)
List_getitem(o, item) ==
    IF item.t = "int"
    THEN IF PyIndexOk(o._values.xs, item.n) THEN PyIndex(o._values.xs, item.n)
         ELSE Raise("IndexError")
    ELSE IF item.t = "list"
         THEN IF \A j \in 1..Len(item.xs) : PyIndexOk(o._values.xs, item.xs[j].n)
              THEN Lst([j \in 1..Len(item.xs) |-> PyIndex(o._values.xs, item.xs[j].n)])
              ELSE Raise("IndexError")
         ELSE Raise("ValueError")

\* List._length()
List_length(o) == Len(o._values.xs)

\* a mutant: the range check of Int.freeze with its upper bound exclusive
Int_freezeExclusiveHigh(h, a, choice) ==
    LET o == h[a]
        id == VarExpression_id(o)
        bind == [h |-> [h EXCEPT ![a].value = choice[id]], exc |-> "", called |-> {a}]
        stop(e) == [h |-> h, exc |-> e, called |-> {a}]
    IN IF id \notin DOMAIN choice THEN stop("KeyError")
       ELSE IF ~(IsVarExpression(h, o._low) \/ IsVarExpression(h, o._high))
            THEN IF choice[id].t # "int" THEN stop("TypeError")
                 ELSE IF o._low.n > choice[id].n \/ choice[id].n >= o._high.n
                      THEN stop("ValueError")
                      ELSE bind
            ELSE bind

\* Int.freeze and Float.freeze
Int_freeze(h, a, choice) ==
    LET o == h[a]
        id == VarExpression_id(o)
        bind == [h |-> [h EXCEPT ![a].value = choice[id]], exc |-> "", called |-> {a}]
        stop(e) == [h |-> h, exc |-> e, called |-> {a}]
    IN IF id \notin DOMAIN choice THEN stop("KeyError")
       ELSE IF ~(IsVarExpression(h, o._low) \/ IsVarExpression(h, o._high))
            THEN IF choice[id].t # "int" THEN stop("TypeError")
                 ELSE IF o._low.n > choice[id].n \/ choice[id].n > o._high.n
                      THEN stop("ValueError")
                      ELSE bind
            ELSE bind

\* the first part of List.freeze: idx, or the exception raised computing it
List_freeze_idx(h, a, choice) ==
    LET o == h[a]
        id == VarExpression_id(o)
    IN IF o._k = None
       THEN IF id \notin DOMAIN choice THEN Raise("KeyError")
            ELSE IF o._invariant
                 THEN IF choice[id] = Lit(0) THEN choice[id] ELSE Raise("AssertionError")
                 ELSE IF choice[id].t # "int" THEN Raise("TypeError")
                      ELSE IF 0 <= choice[id].n /\ choice[id].n < List_length(o)
                           THEN choice[id]
                           ELSE Raise("AssertionError")
       ELSE IF o._invariant
            THEN LET key == IF IsVarExpression(h, o._k) THEN VarExpression_id(h[o._k.a]) ELSE id
                 IN IF key \notin DOMAIN choice THEN Raise("KeyError")
                    ELSE IF choice[key].t # "int" THEN Raise("TypeError")
                         ELSE Lst(range(choice[key].n))
            ELSE IF id \notin DOMAIN choice THEN Raise("KeyError")
                 ELSE IF choice[id].t = "list" THEN choice[id]
                      ELSE Raise("AssertionError")

RECURSIVE freeze(_, _, _), freeze_aux(_, _, _, _), List_freeze_each(_, _, _, _, _)

\* freeze_aux mapped over the leaves vs
freeze_aux(h, vs, choice, called) ==
    IF vs = <<>> THEN [h |-> h, exc |-> "", called |-> called]
    ELSE IF IsExpression(h, Head(vs))
         THEN LET r == freeze(h, Head(vs).a, choice)
              IN IF r.exc # "" THEN [h |-> r.h, exc |-> r.exc, called |-> called \cup r.called]
                 ELSE freeze_aux(r.h, Tail(vs), choice, called \cup r.called)
         ELSE freeze_aux(h, Tail(vs), choice, called)

\* the loop that ends List.freeze: for i in idx, self.value[i] is frozen
\* when it is an Expression
List_freeze_each(h, value, idx, choice, called) ==
    IF idx = <<>> THEN [h |-> h, exc |-> "", called |-> called]
    ELSE IF ~PyIndexOk(value, Head(idx).n)
         THEN [h |-> h, exc |-> "IndexError", called |-> called]
         ELSE LET v == PyIndex(value, Head(idx).n)
              IN IF IsExpression(h, v)
                 THEN LET r == freeze(h, v.a, choice)
                      IN IF r.exc # ""
                         THEN [h |-> r.h, exc |-> r.exc, called |-> called \cup r.called]
                         ELSE List_freeze_each(r.h, value, Tail(idx), choice,
                                               called \cup r.called)
                 ELSE List_freeze_each(h, value, Tail(idx), choice, called)

\* List.freeze
List_freeze(h, a, choice) ==
    LET idx == List_freeze_idx(h, a, choice)
        value == List_getitem(h[a], idx)
        h1 == [h EXCEPT ![a].value = value]
    IN IF IsRaise(idx) THEN [h |-> h, exc |-> idx.exc, called |-> {a}]
       ELSE IF IsRaise(value) THEN [h |-> h, exc |-> value.exc, called |-> {a}]
       ELSE IF idx.t = "list" THEN List_freeze_each(h1, value.xs, idx.xs, choice, {a})
       ELSE IF IsExpression(h1, value)
            THEN LET r == freeze(h1, value.a, choice)
                 IN [h |-> r.h, exc |-> r.exc, called |-> {a} \cup r.called]
            ELSE [h |-> h1, exc |-> "", called |-> {a}]

\* freeze(choice) on any node: Int.freeze, Float.freeze, List.freeze,
\* ExpressionCallExpression.freeze, Expression.freeze
freeze(h, a, choice) ==
    LET o == h[a] IN
    IF o.cls \in {"Int", "Float"} THEN Int_freeze(h, a, choice)
    ELSE IF o.cls = "List" THEN List_freeze(h, a, choice)
    ELSE IF o.cls = "ExpressionCallExpression"
         THEN IF IsExpression(h, o.expression)
              THEN freeze_aux(h, <<o.expression>> \o Flatten(o.args) \o Flatten(o.kwargs),
                              choice, {a})
              ELSE [h |-> h, exc |-> "AttributeError", called |-> {a}]
         ELSE freeze_aux(h, Leaves(o), choice, {a})

(***************************************************************************)
(* sample(size=None, rng, memo).  The random source is the stream rng,     *)
(* read cyclically from position pos; d counts the draws made for each     *)
(* object.  The result is the sample (or the exception raised), the memo,  *)
(* the position in the stream and the counts after the call.               *)
(***************************************************************************)
\* a memo argument that is a dict
Dict(d) == [t |-> "dict", d |-> d]

\* id(obj): the address of the object, an integer
PyId(a) == [t |-> "pyid", a |-> a]

\* the next value of the random source
NextRandom(rng, pos) == rng[(pos % Len(rng)) + 1]

\* one more draw counted for the object a
CountDraw(d, a) == DictSet(d, a, IF a \in DOMAIN d THEN d[a] + 1 ELSE 1)

\* xs without its i-th item
Remove(xs, i) == SubSeq(xs, 1, i - 1) \o SubSeq(xs, i + 1, Len(xs))

\* rng.choice(n, size=k, replace=replace): k indexes below n, drawn from the
\* indexes left in pool
RECURSIVE rng_choice(_, _, _, _, _)
rng_choice(pool, k, replace, rng, pos) ==
    IF k = 0 THEN <<>>
    ELSE LET i == (NextRandom(rng, pos) % Len(pool)) + 1
         IN <<pool[i]>> \o rng_choice(IF replace THEN pool ELSE Remove(pool, i),
                                      k - 1, replace, rng, pos + 1)

RECURSIVE sample(_, _, _, _, _, _)

\* the sample of a bound or of k: drawn when it is a variable, itself otherwise
sample_of(h, v, m, rng, pos, d) ==
    IF IsVarExpression(h, v) THEN sample(h, v.a, m, rng, pos, d)
    ELSE [ret |-> v, memo |-> m, pos |-> pos, draws |-> d]

\* Int._sample: self._dist.rvs(low, high + 1)
Int_sample(h, a, m, rng, pos, d) ==
    LET low == sample_of(h, h[a]._low, m, rng, pos, d)
        high == sample_of(h, h[a]._high, low.memo, rng, low.pos, low.draws)
    IN IF IsRaise(low.ret) THEN low
       ELSE IF IsRaise(high.ret) THEN high
       ELSE IF low.ret.n > high.ret.n THEN [high EXCEPT !.ret = Raise("ValueError")]
       ELSE [ret |-> Lit(low.ret.n + (NextRandom(rng, high.pos) % (high.ret.n - low.ret.n + 1))),
             memo |-> high.memo, pos |-> high.pos + 1, draws |-> CountDraw(high.draws, a)]

\* List._sample
List_sample(h, a, m, rng, pos, d) ==
    LET o == h[a]
        n == List_length(o)
        k == sample_of(h, o._k, m, rng, pos, d)
    IN IF o._k = None
       THEN IF o._invariant
            THEN [ret |-> Lit(0), memo |-> m, pos |-> pos, draws |-> d]
            ELSE [ret |-> Lit(NextRandom(rng, pos) % n), memo |-> m, pos |-> pos + 1,
                  draws |-> CountDraw(d, a)]
       ELSE IF o._invariant
            THEN IF IsVarExpression(h, o._k) THEN k
                 ELSE [ret |-> Raise("TypeError"), memo |-> m, pos |-> pos, draws |-> d]
            ELSE IF IsRaise(k.ret) THEN k
                 ELSE IF ~o._replace /\ k.ret.n > n
                      THEN [k EXCEPT !.ret = Raise("ValueError")]
                      ELSE [ret |-> Lst([j \in 1..k.ret.n |->
                                           Lit(rng_choice([i \in 1..n |-> i - 1], k.ret.n,
                                                          o._replace, rng, k.pos)[j])]),
                            memo |-> k.memo, pos |-> k.pos + k.ret.n,
                            draws |-> CountDraw(k.draws, a)]

\* VarExpression.sample
sample(h, a, m, rng, pos, d) ==
    IF m.t = "dict" /\ PyId(a) \in DOMAIN m.d
    THEN [ret |-> IF VarExpression_id(h[a]) \in DOMAIN m.d THEN m.d[VarExpression_id(h[a])]
                  ELSE Raise("KeyError"),
          memo |-> m, pos |-> pos, draws |-> d]
    ELSE LET s == IF h[a].cls = "List" THEN List_sample(h, a, m, rng, pos, d)
                  ELSE Int_sample(h, a, m, rng, pos, d)
         IN IF m.t = "dict" /\ ~IsRaise(s.ret)
            THEN [s EXCEPT !.memo = Dict(DictSet(s.memo.d, VarExpression_id(h[a]), s.ret))]
            ELSE s

(***************************************************************************)
(* evaluate().  The result is the heap after the call, the value returned  *)
(* (or the exception raised) and the log of the calls made to wrapped      *)
(* external callables.                                                     *)
(***************************************************************************)
\* what calling the external callable c with these arguments returns
App(c, args, kwargs) == [t |-> "result", of |-> c, args |-> args, kwargs |-> kwargs]

\* f(*args, **kwargs) for an external f: the method __call__ bound to an
\* object passes that object's call the arguments as given
Invoke(f, args, kwargs, log) ==
    IF f.t # "ext" THEN [ret |-> Raise("TypeError"), calls |-> log]
    ELSE LET c == IF f.kind = "boundmethod" /\ f.name = "__call__" THEN f.self ELSE f
         IN [ret |-> App(c, args, kwargs),
             calls |-> Append(log, [callee |-> c, args |-> args, kwargs |-> kwargs])]

\* bool(self.function_parent)
ParentTruthy(p) == p.t = "ext" /\ (p.kind = "instance" => p.truthy)

\* the call FunctionCallExpression._evaluate makes once its children are
\* evaluated
FunctionCallExpression_call(o, log) ==
    IF ParentTruthy(o.function_parent)
    THEN IF o.function.name = "__init__"
         THEN Invoke(o.function_parent, o.args.xs, o.kwargs.xs, log)
         ELSE Invoke(o.function, <<o.function_parent>> \o o.args.xs, o.kwargs.xs, log)
    ELSE Invoke(o.function, o.args.xs, o.kwargs.xs, log)

RECURSIVE evaluate(_, _, _), evaluate_aux(_, _, _), evaluate_seq(_, _, _)

\* evaluate_aux mapped over the items vs of a list or mapping
evaluate_seq(h, vs, log) ==
    IF vs = <<>> THEN [h |-> h, ret |-> Lst(<<>>), calls |-> log]
    ELSE LET r1 == evaluate_aux(h, Head(vs), log)
         IN IF IsRaise(r1.ret) THEN r1
            ELSE LET r2 == evaluate_seq(r1.h, Tail(vs), r1.calls)
                 IN IF IsRaise(r2.ret) THEN r2
                    ELSE [h |-> r2.h, ret |-> Lst(<<r1.ret>> \o r2.ret.xs), calls |-> r2.calls]

\* evaluate_aux mapped over one field value
evaluate_aux(h, v, log) ==
    IF v.t = "ref" THEN evaluate(h, v.a, log)
    ELSE IF v.t = "list" THEN evaluate_seq(h, v.xs, log)
    ELSE [h |-> h, ret |-> v, calls |-> log]

\* Expression.evaluate_children: the node's fields are rewritten once every
\* child has been evaluated
evaluate_children(h, a, log) ==
    LET r == evaluate_seq(h, FieldValues(h[a]), log)
    IN IF IsRaise(r.ret) THEN r
       ELSE [h |-> [r.h EXCEPT ![a] = WithFieldValues(r.h[a], r.ret.xs)],
             ret |-> None, calls |-> r.calls]

\* VarExpression.evaluate: the value, with the Expressions in it evaluated;
\* self.value itself is left as it is
VarExpression_evaluate(h, a, log) ==
    LET v == h[a].value
    IN IF IsExpression(h, v) THEN evaluate(h, v.a, log)
       ELSE IF v.t = "list" THEN evaluate_seq(h, v.xs, log)
       ELSE [h |-> h, ret |-> v, calls |-> log]

\* getattr(v, name)(): the method name bound to the value v
BoundMethod(v, name) == [t |-> "ext", kind |-> "boundmethod", name |-> name, self |-> v]

\* the value NotImplemented
NotImplemented == [t |-> "notimplemented"]

\* getattr(v, name) on an evaluated value, for the names real and bit_length
getattr(v, name) ==
    IF v.t = "int"
    THEN IF name = "real" THEN v
         ELSE IF name = "bit_length" THEN BoundMethod(v, name)
         ELSE Raise("AttributeError")
    ELSE Raise("AttributeError")

\* getattr(left, attr)(right) on evaluated operands: integer arithmetic and
\* comparison are computed, the other methods return a value that depends on
\* the method and its operands
operator_implementation(left, attr, right) ==
    IF left.t = "int"
    THEN IF attr = "__matmul__" THEN Raise("AttributeError")
         ELSE IF right.t # "int" THEN NotImplemented
         ELSE CASE attr = "__add__" -> Lit(left.n + right.n)
                [] attr = "__sub__" -> Lit(left.n - right.n)
                [] attr = "__mul__" -> Lit(left.n * right.n)
                [] attr = "__lt__" -> Bool(left.n < right.n)
                [] attr = "__le__" -> Bool(left.n <= right.n)
                [] attr = "__gt__" -> Bool(left.n > right.n)
                [] attr = "__ge__" -> Bool(left.n >= right.n)
                [] attr = "__eq__" -> Bool(left.n = right.n)
                [] attr = "__ne__" -> Bool(left.n # right.n)
                [] OTHER -> App(BoundMethod(left, attr), <<right>>, <<>>)
    ELSE IF left = None \/ (left.t = "ext" /\ left.kind = "function")
         THEN IF attr \in {"__lt__", "__le__", "__gt__", "__ge__", "__eq__", "__ne__"}
              THEN IF attr = "__eq__" /\ right = left THEN Bool(TRUE)
                   ELSE IF attr = "__ne__" /\ right = left THEN Bool(FALSE)
                   ELSE NotImplemented
              ELSE Raise("AttributeError")
         ELSE App(BoundMethod(left, attr), <<right>>, <<>>)

\* evaluate() on a node: VarExpression.evaluate, ObjectExpression.evaluate,
\* BinaryExpression.evaluate, ExpressionAttributeAccess.evaluate,
\* ExpressionCallExpression.evaluate, FunctionCallExpression.evaluate
evaluate(h, a, log) ==
    IF h[a].cls \in VarClasses THEN VarExpression_evaluate(h, a, log)
    ELSE LET r == evaluate_children(h, a, log)
             o == r.h[a]
         IN IF IsRaise(r.ret) THEN r
            ELSE IF o.cls = "ObjectExpression"
                 THEN [h |-> r.h, ret |-> o._obj, calls |-> r.calls]
            ELSE IF o.cls = "BinaryExpression"
                 THEN [h |-> r.h, calls |-> r.calls,
                       ret |-> operator_implementation(o.left, BIN_OPS_SYNTAX_2_ATTR[o.operator],
                                                       o.right)]
            ELSE IF o.cls = "ExpressionAttributeAccess"
                 THEN [h |-> r.h, ret |-> getattr(o.expression, o.name), calls |-> r.calls]
            ELSE IF o.cls = "ExpressionCallExpression"
                 THEN LET c == Invoke(o.expression, o.args.xs, o.kwargs.xs, r.calls)
                      IN [h |-> r.h, ret |-> c.ret, calls |-> c.calls]
            ELSE LET c == FunctionCallExpression_call(o, r.calls)
                 IN [h |-> r.h, ret |-> c.ret, calls |-> c.calls]

(***************************************************************************)
(* The process starts with no object built and the counter at 0.           *)
(***************************************************************************)
NoResult == [op |-> "none"]

Init ==
    /\ heap = <<>>
    /\ var_id = 0
    /\ res = NoResult
    /\ memo = EmptyDict
    /\ draws = EmptyDict
    /\ calls = <<>>

\* Int(low, high, name) and Float(low, high, name)
NewInt(cls, low, high, name) ==
    /\ heap' = New(heap, Int_init(cls, low, high, name, var_id))
    /\ var_id' = var_id + 1
    /\ res' = [op |-> "new", ret |-> Ref(Len(heap) + 1)]
    /\ UNCHANGED <<memo, draws, calls>>

\* List(values, k, replace, invariant, name)
NewList(values, k, replace, invariant, name) ==
    /\ heap' = New(heap, List_init(values, k, replace, invariant, name, var_id))
    /\ var_id' = var_id + 1
    /\ res' = [op |-> "new", ret |-> Ref(Len(heap) + 1)]
    /\ UNCHANGED <<memo, draws, calls>>

\* ObjectExpression(obj)
Wrap(obj) ==
    /\ heap' = New(heap, ObjectExpression(obj))
    /\ res' = [op |-> "new", ret |-> Ref(Len(heap) + 1)]
    /\ UNCHANGED <<var_id, memo, draws, calls>>

\* node <sym> other
Operator(a, sym, other) ==
    /\ LET r == ApplyOperator(heap, a, sym, other)
       IN /\ heap' = r.h
          /\ res' = [op |-> "operator", node |-> a, sym |-> sym, operand |-> other,
                     ret |-> r.ret, before |-> heap]
    /\ UNCHANGED <<var_id, memo, draws, calls>>

\* node(*args, **kwargs)
Call(a, args, kwargs) ==
    /\ heap' = New(heap, CallNode(heap, a, args, kwargs))
    /\ res' = [op |-> "call", node |-> a, args |-> args, kwargs |-> kwargs,
               ret |-> Ref(Len(heap) + 1)]
    /\ UNCHANGED <<var_id, memo, draws, calls>>

\* node.choices()
Choices(a) ==
    /\ res' = [op |-> "choices", node |-> a, ret |-> choices(heap, a)]
    /\ UNCHANGED <<heap, var_id, memo, draws, calls>>

\* node.clone(deep)
Clone(a, deep) ==
    /\ LET r == clone(heap, a, deep)
       IN /\ heap' = r.h
          /\ res' = [op |-> "clone", node |-> a, deep |-> deep, ret |-> r.v]
    /\ UNCHANGED <<var_id, memo, draws, calls>>

\* node.<name>, for a name that is no attribute of the node
\* (Expression.__getattribute__)
GetAttr(a, name) ==
    /\ heap' = New(heap, ExpressionAttributeAccess(Ref(a), name))
    /\ res' = [op |-> "getattr", node |-> a, name |-> name, ret |-> Ref(Len(heap) + 1)]
    /\ UNCHANGED <<var_id, memo, draws, calls>>

\* node.freeze(choice)
Freeze(a, choice) ==
    /\ LET r == freeze(heap, a, choice)
       IN /\ heap' = r.h
          /\ res' = [op |-> "freeze", node |-> a, choice |-> choice,
                     ret |-> IF r.exc = "" THEN None ELSE Raise(r.exc),
                     called |-> r.called]
    /\ UNCHANGED <<var_id, memo, draws, calls>>

\* node.evaluate()
Evaluate(a) ==
    /\ LET r == evaluate(heap, a, <<>>)
       IN /\ heap' = r.h
          /\ calls' = r.calls
          /\ res' = [op |-> "evaluate", node |-> a, ret |-> r.ret, before |-> heap]
    /\ UNCHANGED <<var_id, memo, draws>>

\* node.sample(rng=rng, memo=memo), memo being the mapping the caller keeps
Sample(a, rng) ==
    /\ LET r == sample(heap, a, Dict(memo), rng, 0, draws)
       IN /\ memo' = r.memo.d
          /\ draws' = r.draws
          /\ res' = [op |-> "sample", node |-> a, ret |-> r.ret]
    /\ UNCHANGED <<heap, var_id, calls>>

\* node.sample(rng=rng), without a memo
SampleNoMemo(a, rng) ==
    /\ res' = [op |-> "sample", node |-> a, ret |-> sample(heap, a, None, rng, 0, EmptyDict).ret]
    /\ UNCHANGED <<heap, var_id, memo, draws, calls>>

\* the caller takes a new, empty memo
NewMemo ==
    /\ memo' = EmptyDict
    /\ draws' = EmptyDict
    /\ res' = NoResult
    /\ UNCHANGED <<heap, var_id, calls>>

(***************************************************************************)
(* Graph specification: the caller builds Int variables, operator nodes    *)
(* and call nodes over them, and asks for choices().                       *)
(***************************************************************************)
GraphNames == {None, Str(<<"a">>)}
GraphSymbols == {"+"}

Addrs == 1..Len(heap)
\* what a caller can put where a value goes: a node, or a literal
Operands == {Ref(a) : a \in Addrs} \cup {Lit(1)}
ArgLists == {<<>>} \cup {<<x>> : x \in Operands}

GraphNewInt ==
    \E name \in GraphNames :
        /\ Len(heap) < MaxObjects
        /\ NewInt("Int", Lit(0), Lit(5), name)

GraphOperator ==
    \E a \in Addrs, sym \in GraphSymbols, other \in Operands :
        /\ Len(heap) < MaxObjects
        /\ Operator(a, sym, other)

GraphCall ==
    \E a \in Addrs, args \in ArgLists, kwargs \in ArgLists :
        /\ Len(heap) < MaxObjects
        /\ Call(a, args, kwargs)

GraphChoices == \E a \in Addrs : Choices(a)

GraphClone ==
    \E a \in Addrs, deep \in BOOLEAN :
        /\ Len(heap) <= MaxObjects
        /\ Clone(a, deep)

Next == GraphNewInt \/ GraphOperator \/ GraphCall \/ GraphChoices

Spec == Init /\ [][Next]_vars

\* the same graphs, cloned
NextClone == GraphNewInt \/ GraphOperator \/ GraphCall \/ GraphClone

SpecClone == Init /\ [][NextClone]_vars

(***************************************************************************)
(* What the graph claims speak of.                                         *)
(***************************************************************************)
\* the addresses a node's fields refer to
RefsOf(o) == LET ls == Leaves(o) IN {ls[i].a : i \in {j \in 1..Len(ls) : IsRef(ls[j])}}

\* the nodes reachable from the frontier, going on only through nodes that
\* are not variables
RECURSIVE Closure(_, _, _)
Closure(h, seen, frontier) ==
    IF frontier = {} THEN seen
    ELSE LET through == {a \in frontier : h[a].cls \notin VarClasses}
             next == UNION {RefsOf(h[a]) : a \in through}
         IN Closure(h, seen \cup frontier, next \ (seen \cup frontier))

\* the variables reachable from a root through non-variable nodes
ReachVars(h, root) == {a \in Closure(h, {}, RefsOf(h[root])) : h[a].cls \in VarClasses}

\* the leaves of a node in the order its choices() visits them
TraversalLeaves(o) ==
    IF o.cls = "ExpressionCallExpression"
    THEN <<o.expression>> \o Flatten(o.args) \o Flatten(o.kwargs)
    ELSE Leaves(o)

\* the variables met from a root, one entry per reference site, in
\* traversal order
RECURSIVE VarOccurrences(_, _), OccurrencesIn(_, _)
VarOccurrences(h, a) == OccurrencesIn(h, TraversalLeaves(h[a]))
OccurrencesIn(h, vs) ==
    IF vs = <<>> THEN <<>>
    ELSE (IF IsVarExpression(h, Head(vs)) THEN <<Head(vs).a>>
          ELSE IF IsRef(Head(vs)) THEN VarOccurrences(h, Head(vs).a)
          ELSE <<>>) \o OccurrencesIn(h, Tail(vs))

\* the first variable of occ that bears identity k
FirstBearing(h, occ, k) ==
    occ[CHOOSE i \in 1..Len(occ) :
            /\ VarExpression_id(h[occ[i]]) = k
            /\ \A j \in 1..(i - 1) : VarExpression_id(h[occ[j]]) # k]

\* every reference site below a node, in depth-first order: the address each
\* site refers to (a node and its clone have their sites in the same order)
RECURSIVE Sites(_, _), SitesIn(_, _)
Sites(h, a) == SitesIn(h, Leaves(h[a]))
SitesIn(h, vs) ==
    IF vs = <<>> THEN <<>>
    ELSE (IF IsRef(Head(vs)) THEN <<Head(vs).a>> \o Sites(h, Head(vs).a) ELSE <<>>)
         \o SitesIn(h, Tail(vs))

ChoicesOfNode == res.op = "choices" /\ heap[res.node].cls \notin VarClasses

\* C1: in a deep clone, two reference sites that share one variable object
\* in the original share one variable object in the clone.
C1_DeepClonePreservesAliasing ==
    (res.op = "clone" /\ res.deep) =>
        LET so == Sites(heap, res.node)
            sc == Sites(heap, res.ret.a)
        IN \A i, j \in 1..Len(so) :
              (heap[so[i]].cls \in VarClasses /\ so[i] = so[j]) => sc[i] = sc[j]

\* C7 as stated: choices() on a non-variable root has exactly one entry per
\* reachable variable, keyed by that variable's identity.
C7_OneEntryPerVariable ==
    ChoicesOfNode =>
        LET R == ReachVars(heap, res.node)
            d == res.ret
        IN /\ Cardinality(DOMAIN d) = Cardinality(R)
           /\ \A v \in R : /\ VarExpression_id(heap[v]) \in DOMAIN d
                           /\ d[VarExpression_id(heap[v])] = Ref(v)

\* C7 as amended: choices() on a non-variable root has exactly one entry per
\* identity borne by a reachable variable, whose value is a reachable
\* variable bearing that identity; with pairwise distinct identities that is
\* one entry per reachable variable, however often it is referenced.
C7_OneEntryPerIdentity ==
    ChoicesOfNode =>
        LET R == ReachVars(heap, res.node)
            d == res.ret
        IN /\ DOMAIN d = {VarExpression_id(heap[v]) : v \in R}
           /\ \A k \in DOMAIN d : /\ IsRef(d[k])
                                  /\ d[k].a \in R
                                  /\ VarExpression_id(heap[d[k].a]) = k
           /\ (\A v, w \in R : v # w => VarExpression_id(heap[v]) # VarExpression_id(heap[w]))
                 => /\ Cardinality(DOMAIN d) = Cardinality(R)
                    /\ \A v \in R : d[VarExpression_id(heap[v])] = Ref(v)

\* C7 witness: choices() of a call node that reaches two variables, one of
\* them at two sites (callee and keyword argument), returned two entries.
C7_Witness ==
    /\ ChoicesOfNode
    /\ heap[res.node].cls = "ExpressionCallExpression"
    /\ Cardinality(ReachVars(heap, res.node)) = 2
    /\ Cardinality(DOMAIN res.ret) = 2
    /\ heap[res.node].kwargs # Lst(<<>>)
    /\ Len(VarOccurrences(heap, res.node)) = 3

\* C9: on an identity collision choices() keeps the variable that occurs
\* first in traversal order.
C9_FirstOccurrenceWins ==
    ChoicesOfNode =>
        \A k \in DOMAIN res.ret :
            res.ret[k] = Ref(FirstBearing(heap, VarOccurrences(heap, res.node), k))

(***************************************************************************)
(* Operator specification: the caller builds nodes of every kind and       *)
(* applies every binary operator symbol of the registry to them.           *)
(***************************************************************************)
VarOperands == {Ref(a) : a \in Vars(heap)}

OpsNewInt ==
    \E cls \in {"Int", "Float"}, low \in {Lit(0)} \cup VarOperands :
        /\ Len(heap) < MaxOps
        /\ NewInt(cls, low, Lit(5), None)

OpsNewList ==
    \E k \in {None, Lit(1)} :
        /\ Len(heap) < MaxOps
        /\ NewList(<<Lit(0), Lit(1)>>, k, FALSE, FALSE, None)

OpsWrap ==
    /\ Len(heap) < MaxOps
    /\ Wrap(ExtFunction("f"))

OpsCall ==
    \E a \in Addrs :
        /\ Len(heap) < MaxOps
        /\ Call(a, <<Lit(1)>>, <<>>)

OpsOperator ==
    \E a \in Addrs, sym \in BinSymbols, other \in Operands :
        /\ Len(heap) <= MaxOps
        /\ Operator(a, sym, other)

NextOps == OpsNewInt \/ OpsNewList \/ OpsWrap \/ OpsCall \/ OpsOperator

SpecOps == Init /\ [][NextOps]_vars

\* C6: applying any binary operator symbol of the registry to any node
\* returns a new BinaryExpression(left = node, right = operand, operator =
\* symbol) and changes nothing else.
C6_OperatorBuildsBinaryExpression ==
    res.op = "operator" =>
        /\ IsRef(res.ret)
        /\ Len(heap) = Len(res.before) + 1
        /\ res.ret.a = Len(heap)
        /\ heap[res.ret.a] = BinaryExpression(Ref(res.node), res.operand, res.sym)
        /\ SubSeq(heap, 1, Len(res.before)) = res.before

(***************************************************************************)
(* Construction specification: the caller builds variables of every kind,  *)
(* named or not.                                                           *)
(***************************************************************************)
CtorNames == {None, Str(<<>>), Str(<<"a">>), Str(<<"1">>)}

CtorInt ==
    \E cls \in {"Int", "Float"}, name \in CtorNames :
        /\ Len(heap) < MaxCtor
        /\ NewInt(cls, Lit(0), Lit(1), name)

CtorList ==
    \E name \in CtorNames :
        /\ Len(heap) < MaxCtor
        /\ NewList(<<Lit(0), Lit(1)>>, None, FALSE, FALSE, name)

NextCtor == CtorInt \/ CtorList

SpecCtor == Init /\ [][NextCtor]_vars

\* int(s) of a decimal string
DigitVal(c) == CHOOSE i \in 0..9 : Digits[i + 1] = c
RECURSIVE int(_)
int(s) == IF Len(s) = 0 THEN 0 ELSE 10 * int(SubSeq(s, 1, Len(s) - 1)) + DigitVal(s[Len(s)])

\* C5: the counter counts the constructions; unnamed variables get distinct
\* default identities, the later one numerically greater; a variable built
\* with an explicit name exposes exactly that name, whatever the name.
C5_IdentityOfEveryName ==
    /\ var_id = Cardinality(Vars(heap))
    /\ \A a, b \in Vars(heap) :
          (a < b /\ heap[a]._name = None /\ heap[b]._name = None) =>
              /\ VarExpression_id(heap[a]) # VarExpression_id(heap[b])
              /\ int(VarExpression_id(heap[a]).s) < int(VarExpression_id(heap[b]).s)
    /\ \A a \in Vars(heap) :
          heap[a]._name # None => VarExpression_id(heap[a]) = heap[a]._name

(***************************************************************************)
(* Bounded-variable specification: the caller builds Int and Float          *)
(* variables over literal or variable bounds and a List of literals,       *)
(* freezes them with a mapping that has an entry for every identity, and   *)
(* evaluates them.                                                         *)
(***************************************************************************)
MaxInt == 2
MaxChoice == 3

\* the mapping with the single entry id: v
ChoiceOf(id, v) == [k \in {id} |-> v]

\* the variable built last, if any, as a bound
LastVar == {Ref(a) : a \in Vars(heap) \cap {Len(heap)}}

IntNewInt ==
    \E b \in ({"Int"} \X {Lit(0), Lit(1)} \X {Lit(2)})
             \cup ({"Int"} \X LastVar \X {Lit(1)})
             \cup ({"Int"} \X {Lit(0)} \X LastVar)
             \cup {<<"Float", Lit(0), Lit(1)>>} :
        /\ Len(heap) < MaxInt
        /\ NewInt(b[1], b[2], b[3], None)

IntNewList ==
    /\ Len(heap) < MaxInt
    /\ NewList(<<Lit(1), Lit(2)>>, None, FALSE, FALSE, None)

IntFreeze ==
    \E a \in Vars(heap), n \in 0..MaxChoice :
        Freeze(a, ChoiceOf(VarExpression_id(heap[a]), Lit(n)))

IntEvaluate == \E a \in Vars(heap) : Evaluate(a)

NextInt == IntNewInt \/ IntNewList \/ IntFreeze \/ IntEvaluate

SpecInt == Init /\ [][NextInt]_vars

\* C2: evaluate() on a variable whose value is still absent fails.
C2_EvaluateUnfrozenFails ==
    (res.op = "evaluate" /\ res.before[res.node].cls \in VarClasses
        /\ res.before[res.node].value = None)
    => IsRaise(res.ret)

\* an Int whose two bounds are literal integers
LiteralInt(o) == o.cls = "Int" /\ o._low.t = "int" /\ o._high.t = "int"

\* C4: on an Int over literal bounds, freeze(choice) succeeds exactly when
\* low <= choice[id] <= high and binds the value, which the evaluate() that
\* follows returns; outside the range it fails with ValueError.  On an Int
\* with a variable bound, freeze binds every choice.
C4_FreezeValidatesLiteralRange ==
    /\ [](res.op = "freeze" /\ heap[res.node].cls = "Int" =>
            LET o == heap[res.node]
                c == res.choice[VarExpression_id(o)]
            IN IF LiteralInt(o)
               THEN /\ res.ret = None <=> (o._low.n <= c.n /\ c.n <= o._high.n)
                    /\ res.ret = None => heap[res.node].value = c
                    /\ res.ret # None => res.ret = Raise("ValueError")
               ELSE res.ret = None /\ heap[res.node].value = c)
    /\ [][(res.op = "freeze" /\ res.ret = None /\ LiteralInt(heap[res.node])
            /\ res'.op = "evaluate" /\ res'.node = res.node)
          => res'.ret = res.choice[VarExpression_id(heap[res.node])]]_vars

\* an Int over literal bounds frozen at its upper bound, and one with a
\* variable bound frozen beyond its literal bound
C4_Witness ==
    /\ res.op = "freeze" /\ res.ret = None
    /\ LiteralInt(heap[res.node])
    /\ heap[res.node].value = heap[res.node]._high
    /\ \E a \in Vars(heap) :
          /\ heap[a].cls = "Int" /\ IsRef(heap[a]._low) /\ heap[a]._high = Lit(1)
          /\ heap[a].value = Lit(MaxChoice)

(***************************************************************************)
(* List specification: the caller builds Int candidates, then a List over  *)
(* them in one of the four cases, and freezes the List, while it has no    *)
(* value, with a mapping that has an entry for every identity: an         *)
(* in-range integer for an Int, an index or a list of indexes for a List.  *)
(***************************************************************************)
MaxList == 3
MaxK == 3

Indexes == {Lit(n) : n \in 0..(MaxK - 1)}

\* the lists of 2..MaxK indexes
IndexLists == {Lst(xs) : xs \in UNION {[1..n -> Indexes] : n \in 2..MaxK}}

ListNewInt ==
    /\ Len(heap) < MaxList
    /\ \A b \in Vars(heap) : heap[b].cls = "Int"
    /\ NewInt("Int", Lit(0), Lit(MaxK), None)

ListNewList ==
    \E values \in [1..MaxK -> {Lit(7)} \cup {Ref(a) : a \in Vars(heap)}],
       k \in {None, Lit(MaxK)} \cup LastVar,
       replace \in BOOLEAN, invariant \in BOOLEAN :
        /\ Len(heap) < MaxList
        /\ \A b \in Vars(heap) : heap[b].cls = "Int"
        /\ NewList(values, k, replace, invariant, None)

ListFreeze ==
    \E a \in {b \in Vars(heap) : heap[b].cls = "List" /\ heap[b].value = None}, lv \in Indexes \cup IndexLists, iv \in {Lit(2), Lit(MaxK)} :
        Freeze(a, [id \in {VarExpression_id(heap[b]) : b \in Vars(heap)} |->
                      IF \E b \in Vars(heap) :
                            heap[b].cls = "List" /\ VarExpression_id(heap[b]) = id
                      THEN lv ELSE iv])

NextList == ListNewInt \/ ListNewList \/ ListFreeze

SpecList == Init /\ [][NextList]_vars

\* the number of indexes the List o draws when k is present
KOf(h, o, choice) ==
    IF IsRef(o._k) THEN choice[VarExpression_id(h[o._k.a])].n ELSE o._k.n

\* C8: when freeze(choice) on a List returns normally, every Expression
\* among the candidates of the resulting value has had freeze(choice) called;
\* and with k present and invariant false, freeze returns normally on every
\* list of k indexes in [0, length).
C8_FreezeReachesEveryCandidate ==
    (res.op = "freeze" /\ heap[res.node].cls = "List") =>
        LET o == heap[res.node]
            c == res.choice[VarExpression_id(o)]
        IN /\ res.ret = None =>
                LET value == Flatten(heap[res.node].value)
                IN \A j \in 1..Len(value) :
                       IsExpression(heap, value[j]) => value[j].a \in res.called
           /\ (/\ o._k # None /\ ~o._invariant
               /\ c.t = "list" /\ Len(c.xs) = KOf(heap, o, res.choice)
               /\ \A j \in 1..Len(c.xs) : 0 <= c.xs[j].n /\ c.xs[j].n < List_length(o))
              => res.ret = None

(***************************************************************************)
(* Call specification: the caller wraps a class, a plain function or a     *)
(* callable instance, calls the wrapper with literals and Int variables,   *)
(* freezes the variables and evaluates.                                    *)
(***************************************************************************)
MaxCall == 3

Callables == {ExtClass("C"), ExtFunction("f"), ExtInstance("c", TRUE), ExtInstance("e", FALSE)}

CallWrap ==
    \E obj \in Callables :
        /\ Len(heap) < MaxCall
        /\ Wrap(obj)

CallNewInt ==
    /\ Len(heap) < MaxCall
    /\ NewInt("Int", Lit(0), Lit(2), None)

CallArgs == {Lit(1)} \cup {Ref(a) : a \in Vars(heap)}

CallCall ==
    \E a \in {b \in 1..Len(heap) : heap[b].cls = "ObjectExpression"},
       args \in UNION {[1..n -> CallArgs] : n \in 0..2},
       kwargs \in {<<>>, <<Lit(2)>>} :
        /\ Len(heap) < MaxCall
        /\ Call(a, args, kwargs)

CallFreeze ==
    \E a \in Vars(heap), n \in 0..2 :
        Freeze(a, ChoiceOf(VarExpression_id(heap[a]), Lit(n)))

CallEvaluate == \E a \in 1..Len(heap) : Evaluate(a)

NextCall == CallWrap \/ CallNewInt \/ CallCall \/ CallFreeze \/ CallEvaluate

SpecCall == Init /\ [][NextCall]_vars

\* the object that was wrapped, given the node its call built
WrappedOf(o) ==
    IF o.function.kind = "boundmethod" THEN o.function.self
    ELSE IF o.function.name = "__init__" THEN o.function_parent
    ELSE o.function

\* the arguments vs as they resolve in the heap h
Resolved(h, vs) == [j \in 1..Len(vs) |-> IF IsRef(vs[j]) THEN h[vs[j].a].value ELSE vs[j]]

\* C10: evaluating the node built by calling a wrapped class, function or
\* callable instance calls the wrapped object exactly once, with exactly the
\* resolved arguments, and returns what that call returns.
C10_CallsWrappedWithResolvedArguments ==
    (res.op = "evaluate" /\ res.before[res.node].cls = "FunctionCallExpression") =>
        LET o == res.before[res.node]
            args == Resolved(res.before, o.args.xs)
            kwargs == Resolved(res.before, o.kwargs.xs)
        IN /\ res.ret = App(WrappedOf(o), args, kwargs)
           /\ calls = <<[callee |-> WrappedOf(o), args |-> args, kwargs |-> kwargs]>>

(***************************************************************************)
(* Sampling specification: the caller builds Int variables over literal    *)
(* or variable bounds and Lists whose k may be a variable, and samples     *)
(* them, passing the same memo until it takes a new one.                   *)
(***************************************************************************)
MaxSample == 2
MaxDraws == 2

\* the random sources
Streams == [1..2 -> 0..1]

\* the variable built last, if it is an Int
LastInt == {v \in LastVar : heap[v.a].cls = "Int"}

SampleNewInt ==
    \E b \in {<<Lit(0), Lit(1)>>} \cup (LastInt \X {Lit(2)}) \cup (LastInt \X LastInt) :
        /\ Len(heap) < MaxSample
        /\ res.op \in {"none", "new"}
        /\ NewInt("Int", b[1], b[2], None)

SampleNewList ==
    \E k \in {None, Lit(1)} \cup LastInt, replace \in BOOLEAN, invariant \in BOOLEAN :
        /\ Len(heap) < MaxSample
        /\ res.op \in {"none", "new"}
        /\ NewList(<<Lit(7), Lit(8)>>, k, replace, invariant, None)

SampleSample ==
    \E a \in Vars(heap), rng \in Streams :
        /\ \A b \in DOMAIN draws : draws[b] < MaxDraws
        /\ Sample(a, rng)

SampleSampleNoMemo == \E a \in Vars(heap), rng \in Streams : SampleNoMemo(a, rng)

SampleNewMemo ==
    /\ memo # EmptyDict
    /\ NewMemo

NextSample ==
    SampleNewInt \/ SampleNewList \/ SampleSample \/ SampleSampleNoMemo \/ SampleNewMemo

SpecSample == Init /\ [][NextSample]_vars

\* C3: with one memo shared by the sample calls, each variable object is
\* drawn at most once; the later calls return the cached sample.
C3_EachVariableDrawnOnce == \A a \in DOMAIN draws : draws[a] <= 1

(***************************************************************************)
(* Evaluation specification: the caller builds Int variables and operator, *)
(* attribute-access and call nodes over them, and freezes and evaluates    *)
(* any node, any number of times.                                          *)
(***************************************************************************)
MaxEval == 3

EvalNewInt ==
    /\ Len(heap) < MaxEval
    /\ NewInt("Int", Lit(0), Lit(2), None)

EvalWrap ==
    /\ Len(heap) < MaxEval
    /\ Wrap(ExtFunction("f"))

EvalOperator ==
    \E a \in Addrs, other \in {Lit(1)} \cup {Ref(b) : b \in Vars(heap)} :
        /\ Len(heap) < MaxEval
        /\ Operator(a, "+", other)

EvalGetAttr ==
    \E a \in Vars(heap), name \in {"real", "bit_length"} :
        /\ Len(heap) < MaxEval
        /\ GetAttr(a, name)

EvalCall ==
    \E a \in Addrs \ Vars(heap), args \in {<<>>} \cup {<<Ref(b)>> : b \in Vars(heap)} :
        /\ Len(heap) < MaxEval
        /\ Call(a, args, <<>>)

EvalFreeze ==
    \E a \in Addrs, n \in 0..2 :
        Freeze(a, [id \in {VarExpression_id(heap[b]) : b \in Vars(heap)} |-> Lit(n)])

EvalEvaluate == \E a \in Addrs : Evaluate(a)

NextEval ==
    EvalNewInt \/ EvalWrap \/ EvalOperator \/ EvalGetAttr \/ EvalCall \/ EvalFreeze
        \/ EvalEvaluate

SpecEval == Init /\ [][NextEval]_vars

\* a node that is no variable and none of whose fields holds an Expression
Consumed(h, n) ==
    /\ h[n].cls \in NodeClasses
    /\ \A j \in 1..Len(Leaves(h[n])) : ~IsExpression(h, Leaves(h[n])[j])

\* evaluate() has just returned on a node that is no variable
Evaluated ==
    res.op = "evaluate" /\ heap[res.node].cls \in NodeClasses /\ ~IsRaise(res.ret)

\* C11: once evaluate() has returned on a node that is no variable, none of
\* its fields holds an Expression; the freeze(choice) that follows on that
\* node returns without reaching any variable and changes nothing, and the
\* evaluate() that follows returns again what the first returned.
C11_EvaluateConsumesNode ==
    /\ [](Evaluated => Consumed(heap, res.node))
    /\ [][Evaluated =>
            /\ (res'.op = "freeze" /\ res'.node = res.node)
                   => (res'.ret = None /\ heap' = heap)
            /\ (res'.op = "evaluate" /\ res'.node = res.node)
                   => (res'.ret = res.ret /\ heap' = heap)]_vars

(***************************************************************************)
(* Isolation specification: the caller builds graphs over Int and List     *)
(* variables, clones any node in either mode, and freezes and evaluates    *)
(* originals and clones in any order.                                      *)
(***************************************************************************)
MaxIso == 2
MaxIsoHeap == 4

IsoNewInt ==
    /\ Len(heap) < MaxIso
    /\ NewInt("Int", Lit(0), Lit(1), None)

IsoNewList ==
    \E v \in LastVar :
        /\ Len(heap) < MaxIso
        /\ NewList(<<v, Lit(7)>>, None, FALSE, FALSE, None)

IsoOperator ==
    \E a \in Addrs, other \in {Lit(1)} \cup LastVar :
        /\ Len(heap) < MaxIso
        /\ Operator(a, "+", other)

IsoClone ==
    \E a \in Addrs, deep \in BOOLEAN :
        /\ Len(heap) <= MaxIso
        /\ Len(clone(heap, a, deep).h) <= MaxIsoHeap
        /\ Clone(a, deep)

IsoFreeze ==
    \E a \in Addrs, n \in 0..1 :
        Freeze(a, [id \in {VarExpression_id(heap[b]) : b \in Vars(heap)} |-> Lit(n)])

IsoEvaluate == \E a \in Addrs : Evaluate(a)

NextIso == IsoNewInt \/ IsoNewList \/ IsoOperator \/ IsoClone \/ IsoFreeze \/ IsoEvaluate

SpecIso == Init /\ [][NextIso]_vars

\* the objects reachable from a root through every field, the root included
RECURSIVE ReachAll(_, _, _)
ReachAll(h, seen, frontier) ==
    IF frontier = {} THEN seen
    ELSE ReachAll(h, seen \cup frontier,
                  UNION {RefsOf(h[a]) : a \in frontier} \ (seen \cup frontier))

Graph(h, root) == ReachAll(h, {}, {root})

\* C12: a clone, shallow or deep, shares no object with the graph it was
\* cloned from; and freeze or evaluate on a root changes no object outside
\* the root's graph, nor brings a new object into it.  So no sequence of
\* freezes and evaluations on the clone changes a node of the original, and
\* none on the original changes the clone.
C12_CloneIsolation ==
    /\ [](res.op = "clone" => Graph(heap, res.node) \cap Graph(heap, res.ret.a) = {})
    /\ [][res'.op \in {"freeze", "evaluate"} =>
            LET g == Graph(heap, res'.node)
            IN /\ Len(heap') = Len(heap)
               /\ Graph(heap', res'.node) \subseteq g
               /\ \A b \in 1..Len(heap) \ g : heap'[b] = heap[b]]_vars

\* a clone was frozen and evaluated: its variable holds a value, the variable
\* it was copied from holds none
C12_Witness ==
    /\ res.op = "evaluate" /\ Consumed(heap, res.node)
    /\ \E a, b \in Vars(heap) :
          /\ a # b /\ heap[a].var_id = heap[b].var_id
          /\ heap[a].value = None /\ heap[b].value # None
          /\ b \in Graph(res.before, res.node)
          /\ \E m \in Addrs : m # a /\ a \in Graph(heap, m)

====
